---- MODULE Spec2Model ----
(***************************************************************************)
(* A model of the offline translator backend:                              *)
(*   - TranslationService._protect_terms / translate  (services/pipeline)  *)
(*   - TTSService.load_lang / generate_speech         (services/pipeline)  *)
(*   - the three request handlers of main.py running on one event loop     *)
(* Strings are sequences of one-character strings, so that matching,       *)
(* substitution and placeholder formatting are computed character by       *)
(* character, as re and str do.                                            *)
(***************************************************************************)
EXTENDS Integers, Sequences, FiniteSets, TLC

VARIABLES
    context_dict,   \* TranslationService.context_dict: the loaded glossary (a list)
    tr,             \* the last TranslationService.translate call: inputs, locals, outcome
    assets,         \* what TTS_MODELS_DIR/<lang> holds on disk, per catalogue language
    models,         \* TTSService.models: the languages with a cached model
    tokenizers,     \* TTSService.tokenizers: the languages with a cached tokenizer
    tts,            \* the last TTSService.generate_speech call: input and outcome
    stt_service,    \* main.stt_service is set (TRUE) or None (FALSE)
    trans_service,  \* main.trans_service is set or None
    tts_service,    \* main.tts_service is set or None
    tokenizer_src_lang, \* trans_service.tokenizer.src_lang, shared by every translate call
    reqs,           \* the HTTP requests: handler position, parameters, response
    running,        \* the request whose handler occupies the event loop, 0 if none
    load_started,   \* per language, how many times load_lang called from_pretrained for it
    load_raised     \* per language, how many of those loads raised

trVars == <<context_dict, tr>>

ttsVars == <<assets, models, tokenizers, tts>>

srvVars == <<stt_service, trans_service, tts_service, tokenizer_src_lang, reqs, running,
             load_started, load_raised>>

vars == <<context_dict, tr, assets, models, tokenizers, tts,
          stt_service, trans_service, tts_service, tokenizer_src_lang, reqs, running,
          load_started, load_raised>>

----------------------------------------------------------------------------
(* Bounds of the model. *)

\* longest input text, counted in chunks of TextChunks
MaxTextLen == 2

\* most records in the glossary file
MaxGloss == 2

\* how many HTTP requests reach the server
MaxReq == 2

----------------------------------------------------------------------------
(* Characters and strings. *)

\* str.lower() / re.IGNORECASE folding of one character
Lower(c) ==
    CASE c = "A" -> "a"
      [] c = "B" -> "b"
      [] c = "C" -> "c"
      [] c = "T" -> "t"
      [] c = "X" -> "x"
      [] OTHER -> c

\* str.lower() of a string
LowerStr(s) == [i \in 1..Len(s) |-> Lower(s[i])]

\* one decimal digit as a character
DigitChar(d) ==
    CASE d = 0 -> "0" [] d = 1 -> "1" [] d = 2 -> "2" [] d = 3 -> "3"
      [] d = 4 -> "4" [] d = 5 -> "5" [] d = 6 -> "6" [] d = 7 -> "7"
      [] d = 8 -> "8" [] OTHER -> "9"

\* the decimal text of a natural number, as an f-string formats it
RECURSIVE Digits(_)
Digits(n) == IF n < 10 THEN <<DigitChar(n)>>
             ELSE Digits(n \div 10) \o <<DigitChar(n % 10)>>

\* f"__CTX_{counter}__"
Placeholder(counter) ==
    <<"_", "_", "C", "T", "X", "_">> \o Digits(counter) \o <<"_", "_">>

\* whether pat matches s at position i; fold = TRUE compares case-insensitively
MatchAt(pat, s, i, fold) ==
    /\ i + Len(pat) - 1 <= Len(s)
    /\ \A k \in 1..Len(pat) :
          IF fold THEN Lower(pat[k]) = Lower(s[i + k - 1])
                  ELSE pat[k] = s[i + k - 1]

\* pattern.findall(s) is non-empty
HasMatch(pat, s, fold) == \E i \in 1..(Len(s) + 1) : MatchAt(pat, s, i, fold)

\* pattern.sub(repl, s) / s.replace(pat, repl): leftmost non-overlapping matches,
\* scanning from position i
RECURSIVE SubFrom(_, _, _, _, _)
SubFrom(pat, repl, s, i, fold) ==
    IF i > Len(s) THEN (IF Len(pat) = 0 THEN repl ELSE <<>>)
    ELSE IF MatchAt(pat, s, i, fold)
         THEN IF Len(pat) = 0
              THEN repl \o <<s[i]>> \o SubFrom(pat, repl, s, i + 1, fold)
              ELSE repl \o SubFrom(pat, repl, s, i + Len(pat), fold)
         ELSE <<s[i]>> \o SubFrom(pat, repl, s, i + 1, fold)

\* re.compile(re.escape(pat), re.IGNORECASE).sub(repl, s)
ReSubIgnoreCase(pat, repl, s) == SubFrom(pat, repl, s, 1, TRUE)

\* s.replace(old, new)
StrReplace(s, old, new) == SubFrom(old, new, s, 1, FALSE)

\* old in s
Contains(s, old) == HasMatch(old, s, FALSE)

----------------------------------------------------------------------------
(* The glossary (core/context_dictionary.json) and the inputs of a call. *)

\* records a glossary file may hold; the last one lacks its 'translation' key
EntryPool ==
    { [term |-> <<"A", "b">>, translation |-> <<"a">>],
      [term |-> <<"a">>,      translation |-> <<"a", "b">>],
      [term |-> <<"c">>,      translation |-> <<"X">>],
      [term |-> <<"b">>] }

\* the glossaries json.load can return: lists of at most MaxGloss records
Glossaries == UNION { [1..n -> EntryPool] : n \in 0..MaxGloss }

\* the pieces input texts are made of
TextChunks == { <<"a">>, <<"A">>, <<"b">>, <<"c">>, Placeholder(0) }

RECURSIVE Flatten(_)
Flatten(ss) == IF ss = <<>> THEN <<>> ELSE Head(ss) \o Flatten(Tail(ss))

\* the input texts of a call
Texts == { Flatten(cs) : cs \in UNION { [1..n -> TextChunks] : n \in 0..MaxTextLen } }

\* the (src_lang, tgt_lang) pairs requests carry
Directions ==
    { <<"en", "hi">>, <<"hi", "en">>, <<"en", "fr">>, <<"hi", "xx">>, <<"xx", "en">> }

\* the language codes the M2M100 tokenizer knows (get_lang_id raises on any other)
M2MLangs == { "en", "hi", "fr" }

----------------------------------------------------------------------------
(* TranslationService._protect_terms *)

HasTerm(e) == "term" \in DOMAIN e
HasTranslation(e) == "translation" \in DOMAIN e

\* one step of the stable descending sort: e goes after every record whose key
\* is at least as long
InsertByTermLen(acc, e) ==
    LET n == Cardinality({ i \in 1..Len(acc) : Len(acc[i].term) >= Len(e.term) })
    IN  SubSeq(acc, 1, n) \o <<e>> \o SubSeq(acc, n + 1, Len(acc))

\* sorted(self.context_dict, key=lambda x: len(x['term']), reverse=True)
RECURSIVE SortFrom(_, _, _)
SortFrom(d, i, acc) ==
    IF i > Len(d) THEN acc ELSE SortFrom(d, i + 1, InsertByTermLen(acc, d[i]))

sorted_terms(d) == SortFrom(d, 1, <<>>)

\* the string an entry is searched by in a direction, and what it is replaced by
SearchKey(entry, src_lang, tgt_lang) ==
    IF src_lang = "en" /\ tgt_lang = "hi" THEN LowerStr(entry.term)
    ELSE entry.translation

Replacement(entry, src_lang, tgt_lang) ==
    IF src_lang = "en" /\ tgt_lang = "hi" THEN entry.translation
    ELSE LowerStr(entry.term)

SupportedDirection(src_lang, tgt_lang) ==
    \/ src_lang = "en" /\ tgt_lang = "hi"
    \/ src_lang = "hi" /\ tgt_lang = "en"

\* the body of the for loop for one entry; st holds the loop's locals
ProtectEntry(st, entry, src_lang, tgt_lang) ==
    IF ~HasTranslation(entry) THEN [st EXCEPT !.raised = TRUE]
    ELSE IF ~SupportedDirection(src_lang, tgt_lang) THEN st
    ELSE LET pattern == SearchKey(entry, src_lang, tgt_lang)
             placeholder == Placeholder(st.counter)
         IN  IF HasMatch(pattern, st.processed_text, TRUE)
             THEN [st EXCEPT
                     !.protected_map = Append(@, <<placeholder, Replacement(entry, src_lang, tgt_lang)>>),
                     !.processed_text = ReSubIgnoreCase(pattern, placeholder, @),
                     !.counter = @ + 1]
             ELSE st

RECURSIVE ProtectLoop(_, _, _, _, _)
ProtectLoop(entries, i, st, src_lang, tgt_lang) ==
    IF i > Len(entries) \/ st.raised THEN st
    ELSE ProtectLoop(entries, i + 1, ProtectEntry(st, entries[i], src_lang, tgt_lang),
                     src_lang, tgt_lang)

\* _protect_terms(text, src_lang, tgt_lang): raised is a KeyError leaving the call
protect_terms(d, text, src_lang, tgt_lang) ==
    LET st0 == [processed_text |-> text, protected_map |-> <<>>, counter |-> 0,
                raised |-> FALSE]
    IN  IF \E i \in 1..Len(d) : ~HasTerm(d[i])
        THEN [st0 EXCEPT !.raised = TRUE]
        ELSE ProtectLoop(sorted_terms(d), 1, st0, src_lang, tgt_lang)

----------------------------------------------------------------------------
(* TranslationService.translate *)

\* what the translation model may answer for a masked text: the text with the
\* placeholders verbatim, the text with one placeholder dropped, or the text
\* with its letters re-cased
ModelOutputs(masked_text, protection_map) ==
    {masked_text, LowerStr(masked_text)}
      \cup { StrReplace(masked_text, protection_map[k][1], <<>>) :
               k \in 1..Len(protection_map) }

\* step 3 of translate: the restoration loop over protection_map.items()
RECURSIVE Restore(_, _, _)
Restore(translated_text, protection_map, k) ==
    IF k > Len(protection_map) THEN translated_text
    ELSE Restore(StrReplace(translated_text, protection_map[k][1], protection_map[k][2]),
                 protection_map, k + 1)

NoCall ==
    [called |-> FALSE, text |-> <<>>, src_lang |-> "en", tgt_lang |-> "en",
     masked_text |-> <<>>, protection_map |-> <<>>, generated |-> <<>>,
     result |-> <<>>, protected |-> FALSE, status |-> "none"]

\* translate(text, src_lang, tgt_lang), the model answering `generated`
translate(d, text, src_lang, tgt_lang, generated) ==
    LET p == protect_terms(d, text, src_lang, tgt_lang)
        call == [NoCall EXCEPT !.called = TRUE, !.text = text,
                               !.src_lang = src_lang, !.tgt_lang = tgt_lang]
    IN  IF p.raised THEN [call EXCEPT !.status = "error"]
        ELSE IF src_lang \notin M2MLangs \/ tgt_lang \notin M2MLangs
        THEN [call EXCEPT !.masked_text = p.processed_text,
                          !.protection_map = p.protected_map,
                          !.protected = TRUE,
                          !.status = "error"]
        ELSE [call EXCEPT !.masked_text = p.processed_text,
                          !.protection_map = p.protected_map,
                          !.protected = TRUE,
                          !.generated = generated,
                          !.result = Restore(generated, p.protected_map, 1),
                          !.status = "ok"]

----------------------------------------------------------------------------
(* TTSService: the lazily filled per-language cache. *)

\* config.TTS_LANGUAGES (its keys; two of the eight, the default among them)
TTS_LANGUAGES == { "en", "hi" }

\* the language codes a speak request may carry: "xx" is in no catalogue
SpeakLangs == TTS_LANGUAGES \cup { "xx" }

\* what a language's directory under TTS_MODELS_DIR can hold:
\*   absent      no directory                  (os.path.exists is False)
\*   partial     a directory VitsModel.from_pretrained cannot load
\*   model_only  the model, but no tokenizer   (AutoTokenizer.from_pretrained raises)
\*   complete    model and tokenizer
AssetStates == { "absent", "partial", "model_only", "complete" }

\* how far download_tts_models got for a language
AssetRank(a) ==
    CASE a = "absent" -> 0 [] a = "partial" -> 1 [] a = "model_only" -> 2
      [] OTHER -> 3

\* load_lang(lang_code) on cache c with `disk` on disk; c.loads logs, in order,
\* each language that was not cached and how its load ended: "missing" (no
\* directory, from_pretrained never called), "raised" (from_pretrained raised)
\* or "loaded"
RECURSIVE load_lang(_, _, _)
load_lang(c, lang_code, disk) ==
    IF lang_code \in c.models THEN c
    ELSE IF disk[lang_code] = "complete"
    THEN [c EXCEPT !.models = @ \cup {lang_code},
                   !.tokenizers = @ \cup {lang_code},
                   !.loads = Append(@, <<lang_code, "loaded">>)]
    ELSE LET failed ==
               [c EXCEPT !.models = IF disk[lang_code] = "model_only"
                                    THEN @ \cup {lang_code} ELSE @,
                         !.loads = Append(@, <<lang_code,
                                            IF disk[lang_code] = "absent"
                                            THEN "missing" ELSE "raised">>)]
         IN  IF lang_code # "en" THEN load_lang(failed, "en", disk) ELSE failed

NoSpeech ==
    [called |-> FALSE, language |-> "en", on_disk |-> "absent", en_on_disk |-> "absent",
     loads |-> <<>>, status |-> "none", used |-> "none", wrote |-> FALSE]

\* generate_speech(text, language, output_file): the call's record and the cache
\* it leaves
generate_speech(c, language, disk) ==
    LET use_lang == IF language \in TTS_LANGUAGES THEN language ELSE "en"
        c1 == load_lang([c EXCEPT !.loads = <<>>], use_lang, disk)
        use_lang2 == IF use_lang \notin c1.models /\ "en" \in c1.models
                     THEN "en" ELSE use_lang
        call == [NoSpeech EXCEPT !.called = TRUE, !.language = language,
                                 !.on_disk = disk[use_lang],
                                 !.en_on_disk = disk["en"],
                                 !.loads = c1.loads]
    IN  [cache |-> c1,
         call |-> IF use_lang2 \notin c1.models
                  THEN [call EXCEPT !.status = "no_model"]
                  ELSE IF use_lang2 \notin c1.tokenizers
                  THEN [call EXCEPT !.status = "key_error"]
                  ELSE [call EXCEPT !.status = "ok", !.used = use_lang2,
                                    !.wrote = TRUE]]

TTSIdle ==
    /\ assets = [l \in TTS_LANGUAGES |-> "absent"]
    /\ models = {}
    /\ tokenizers = {}
    /\ tts = NoSpeech

TranslateIdle ==
    /\ context_dict = <<>>
    /\ tr = NoCall

----------------------------------------------------------------------------
(* main.py: the services built at startup and the three request handlers.   *)
(* The handlers are coroutines that never await, so each one, once started, *)
(* keeps the event loop until it returns.  Here a transcript is followed    *)
(* only as empty or not; SpecTranslate follows the text of a translate call *)
(* and SpecTTS the synthesis cache against a changing asset directory.      *)

Requests == 1..MaxReq

\* the language codes Whisper accepts as a hint (any other makes transcribe raise)
WhisperLangs == { "en", "hi", "fr" }

NoRequest ==
    [pc |-> "new", kind |-> "none", src |-> "none", tgt |-> "none",
     resp |-> "none", no_signal |-> FALSE, stt_raised |-> FALSE,
     transcript |-> "none", translated |-> FALSE, eff_src |-> "none",
     joined |-> FALSE, used |-> "none"]

ServerIdle ==
    /\ stt_service = FALSE
    /\ trans_service = FALSE
    /\ tts_service = FALSE
    /\ tokenizer_src_lang = "en"
    /\ reqs = [r \in Requests |-> NoRequest]
    /\ running = 0
    /\ load_started = [l \in TTS_LANGUAGES |-> 0]
    /\ load_raised = [l \in TTS_LANGUAGES |-> 0]

\* startup_event: the three constructors run in order inside one try, so the
\* first one to raise leaves its service and the later ones None
StartupOutcomes ==
    { [stt |-> TRUE,  trans |-> TRUE,  tts |-> TRUE],
      [stt |-> TRUE,  trans |-> FALSE, tts |-> FALSE],
      [stt |-> FALSE, trans |-> FALSE, tts |-> FALSE] }

Init ==
    /\ \E o \in StartupOutcomes :
         /\ stt_service = o.stt
         /\ trans_service = o.trans
         /\ tts_service = o.tts
    /\ tokenizer_src_lang = "en"
    /\ reqs = [r \in Requests |-> NoRequest]
    /\ running = 0
    /\ load_started = [l \in TTS_LANGUAGES |-> 0]
    /\ load_raised = [l \in TTS_LANGUAGES |-> 0]
    /\ assets \in [TTS_LANGUAGES -> AssetStates]
    /\ models = {}
    /\ tokenizers = {}
    /\ tts = NoSpeech
    /\ TranslateIdle

\* a handler may take a step: it holds the event loop, or the loop is free
\* for it to start
EventLoopAllows_threads(r) == TRUE

EventLoopAllows(r) == running = r \/ (running = 0 /\ reqs[r].pc = "queued")

\* the handler of r returns (or raises HTTPException) with response resp
Finish(req, resp) == [req EXCEPT !.pc = "done", !.resp = resp]

\* a request reaches the server and waits for the event loop
Arrive(r) ==
    /\ reqs[r].pc = "new"
    /\ \E kind \in {"audio", "text"}, dir \in Directions :
         reqs' = [reqs EXCEPT ![r] = [NoRequest EXCEPT !.pc = "queued", !.kind = kind,
                                                       !.src = dir[1], !.tgt = dir[2]]]
    /\ UNCHANGED <<stt_service, trans_service, tts_service, tokenizer_src_lang, running,
                   load_started, load_raised, ttsVars, trVars>>

\* the language generate_speech tries to load for a requested code
UseLang(language) == IF language \in TTS_LANGUAGES THEN language ELSE "en"

\* another speak request for the same language, not yet cached, is waiting for
\* the event loop or is inside generate_speech
PeerWaiting(r, language) ==
    /\ UseLang(language) \notin models
    /\ \E q \in Requests \ {r} :
          /\ reqs[q].kind = "speak"
          /\ reqs[q].pc \in {"queued", "tts_load"}
          /\ UseLang(reqs[q].src) = UseLang(language)

ArriveSpeak(r) ==
    /\ reqs[r].pc = "new"
    /\ \E language \in SpeakLangs :
         reqs' = [reqs EXCEPT ![r] = [NoRequest EXCEPT !.pc = "queued", !.kind = "speak",
                                                       !.src = language,
                                                       !.joined = PeerWaiting(r, language)]]
    /\ UNCHANGED <<stt_service, trans_service, tts_service, tokenizer_src_lang, running,
                   load_started, load_raised, ttsVars, trVars>>

\* how the recognizer's inference call can end for a language hint
InferenceOutcomes(language) ==
    IF language \notin WhisperLangs THEN { "raised" }
    ELSE { "raised", "blank", "speech" }

\* what transcribe returns: "" when the call raised (the except clause) or the
\* stripped text is empty, the text otherwise
Transcript(outcome) == IF outcome = "speech" THEN "text" ELSE "empty"

\* `if not transcript` in translate_audio
ShortCircuit_never(transcript) == FALSE

ShortCircuit(transcript) == transcript = "empty"

\* the first half of TranslationService.translate: _protect_terms, then
\* tokenizer.src_lang = src_lang, which raises for a code M2M100 does not know
EnterTranslate(req) ==
    IF req.src \notin M2MLangs
    THEN [req |-> Finish([req EXCEPT !.translated = TRUE], "500_translation"),
          src_lang |-> tokenizer_src_lang]
    ELSE [req |-> [req EXCEPT !.translated = TRUE, !.pc = "tr_generate"],
          src_lang |-> req.src]

\* translate_audio once transcribe has returned: the `if not transcript` check,
\* then into translate; heard is the request with what transcribe returned
AfterTranscribe(r, heard) ==
    IF ShortCircuit(heard.transcript)
    THEN /\ reqs' = [reqs EXCEPT ![r] = Finish(heard, "no_speech")]
         /\ running' = IF running = r THEN 0 ELSE running
         /\ UNCHANGED tokenizer_src_lang
    ELSE LET e == EnterTranslate(heard)
         IN  /\ reqs' = [reqs EXCEPT ![r] = e.req]
             /\ tokenizer_src_lang' = e.src_lang
             /\ running' = IF e.req.pc # "done" THEN r
                           ELSE IF running = r THEN 0 ELSE running

\* translate_audio up to the recognizer's inference call: the 503 check, saving
\* the upload, and STTService._validate_audio, which returns None for audio it
\* cannot load (transcribe then returns "")
BeginAudio(r) ==
    /\ reqs[r].pc = "queued" /\ reqs[r].kind = "audio"
    /\ EventLoopAllows(r)
    /\ \/ /\ ~(stt_service /\ trans_service /\ tts_service)
          /\ reqs' = [reqs EXCEPT ![r] = Finish(@, "503")]
          /\ UNCHANGED <<running, tokenizer_src_lang>>
       \/ /\ stt_service /\ trans_service /\ tts_service
          /\ \/ /\ reqs' = [reqs EXCEPT ![r] = Finish(@, "500_save")]
                /\ UNCHANGED <<running, tokenizer_src_lang>>
             \/ AfterTranscribe(r, [reqs[r] EXCEPT !.no_signal = TRUE,
                                                   !.transcript = "empty"])
             \/ /\ reqs' = [reqs EXCEPT ![r].pc = "stt_infer"]
                /\ running' = r
                /\ UNCHANGED tokenizer_src_lang
    /\ UNCHANGED <<stt_service, trans_service, tts_service,
                   load_started, load_raised, ttsVars, trVars>>

\* the inference call of STTService.transcribe returns or raises, and
\* translate_audio goes on
SttInfer(r) ==
    /\ reqs[r].pc = "stt_infer"
    /\ EventLoopAllows(r)
    /\ \E out \in InferenceOutcomes(reqs[r].src) :
         AfterTranscribe(r, [reqs[r] EXCEPT !.stt_raised = (out = "raised"),
                                            !.transcript = Transcript(out)])
    /\ UNCHANGED <<stt_service, trans_service, tts_service,
                   load_started, load_raised, ttsVars, trVars>>

\* translate_text: the 503 check, then into translate
BeginText(r) ==
    /\ reqs[r].pc = "queued" /\ reqs[r].kind = "text"
    /\ EventLoopAllows(r)
    /\ IF ~trans_service
       THEN /\ reqs' = [reqs EXCEPT ![r] = Finish(@, "503")]
            /\ UNCHANGED <<tokenizer_src_lang, running>>
       ELSE LET e == EnterTranslate(reqs[r])
            IN  /\ reqs' = [reqs EXCEPT ![r] = e.req]
                /\ tokenizer_src_lang' = e.src_lang
                /\ running' = IF e.req.pc # "done" THEN r ELSE running
    /\ UNCHANGED <<stt_service, trans_service, tts_service,
                   load_started, load_raised, ttsVars, trVars>>

\* what both translate handlers do with the translation: step 3 of
\* translate_audio (TTS) is disabled, so the handler returns the text, with
\* audio_url None
AfterTranslate_autoplay(req) == [req EXCEPT !.pc = "tts_load", !.src = req.tgt]

AfterTranslate(req) == Finish(req, "ok")

\* the second half of translate: tokenize under the tokenizer's current
\* src_lang, generate towards tgt_lang (get_lang_id raises for an unknown
\* code), restore, return
TrGenerate(r) ==
    /\ reqs[r].pc = "tr_generate"
    /\ EventLoopAllows(r)
    /\ LET req == [reqs[r] EXCEPT !.eff_src = tokenizer_src_lang]
           after == IF req.tgt \notin M2MLangs THEN Finish(req, "500_translation")
                    ELSE AfterTranslate(req)
       IN  /\ reqs' = [reqs EXCEPT ![r] = after]
           /\ running' = IF after.pc = "done" THEN 0 ELSE r
    /\ UNCHANGED <<stt_service, trans_service, tts_service, tokenizer_src_lang,
                   load_started, load_raised, ttsVars, trVars>>

\* speak_text: the 503 check, then into generate_speech
BeginSpeak(r) ==
    /\ reqs[r].pc = "queued" /\ reqs[r].kind = "speak"
    /\ EventLoopAllows(r)
    /\ IF ~tts_service
       THEN /\ reqs' = [reqs EXCEPT ![r] = Finish(@, "503")]
            /\ UNCHANGED running
       ELSE /\ reqs' = [reqs EXCEPT ![r].pc = "tts_load"]
            /\ running' = r
    /\ UNCHANGED <<stt_service, trans_service, tts_service, tokenizer_src_lang,
                   load_started, load_raised, ttsVars, trVars>>

\* how many entries of a load log are <<l, outcome>>
CountLoads(loads, l, outcomes) ==
    Cardinality({ k \in 1..Len(loads) : loads[k][1] = l /\ loads[k][2] \in outcomes })

\* generate_speech up to the synthesizer's inference call: load_lang and the
\* choice of the model
TtsLoad(r) ==
    /\ reqs[r].pc = "tts_load"
    /\ EventLoopAllows(r)
    /\ LET g == generate_speech([models |-> models, tokenizers |-> tokenizers,
                                 loads |-> <<>>], reqs[r].src, assets)
       IN  /\ models' = g.cache.models
           /\ tokenizers' = g.cache.tokenizers
           /\ load_started' = [l \in TTS_LANGUAGES |->
                 load_started[l] + CountLoads(g.cache.loads, l, {"loaded", "raised"})]
           /\ load_raised' = [l \in TTS_LANGUAGES |->
                 load_raised[l] + CountLoads(g.cache.loads, l, {"raised"})]
           /\ IF g.call.status = "ok"
              THEN /\ reqs' = [reqs EXCEPT ![r] = [@ EXCEPT !.pc = "tts_infer",
                                                            !.used = g.call.used]]
                   /\ UNCHANGED running
              ELSE /\ reqs' = [reqs EXCEPT ![r] = Finish(@, "500_tts")]
                   /\ running' = 0
    /\ UNCHANGED <<stt_service, trans_service, tts_service, tokenizer_src_lang,
                   assets, tts, trVars>>

\* the synthesizer's inference call, the write of the wav file, the response
TtsInfer(r) ==
    /\ reqs[r].pc = "tts_infer"
    /\ EventLoopAllows(r)
    /\ reqs' = [reqs EXCEPT ![r] = Finish(@, "ok_audio")]
    /\ running' = 0
    /\ UNCHANGED <<stt_service, trans_service, tts_service, tokenizer_src_lang,
                   load_started, load_raised, ttsVars, trVars>>

Next ==
    \E r \in Requests :
      \/ Arrive(r)
      \/ ArriveSpeak(r)
      \/ BeginAudio(r)
      \/ SttInfer(r)
      \/ BeginText(r)
      \/ TrGenerate(r)
      \/ BeginSpeak(r)
      \/ TtsLoad(r)
      \/ TtsInfer(r)

Spec == Init /\ [][Next]_vars

----------------------------------------------------------------------------
(* The synthesis service on its own: generate_speech calls, and the          *)
(* download script filling the asset directories.                           *)

InitTTS ==
    /\ assets \in [TTS_LANGUAGES -> AssetStates]
    /\ models = {}
    /\ tokenizers = {}
    /\ tts = NoSpeech
    /\ TranslateIdle
    /\ ServerIdle

\* one call of generate_speech
GenerateSpeech ==
    \E language \in SpeakLangs :
      LET r == generate_speech([models |-> models, tokenizers |-> tokenizers,
                                loads |-> <<>>], language, assets)
      IN  /\ models' = r.cache.models
          /\ tokenizers' = r.cache.tokenizers
          /\ tts' = r.call
          /\ UNCHANGED <<assets, trVars, srvVars>>

\* download_tts_models gets further than before for one language
Provision ==
    \E l \in TTS_LANGUAGES, a \in AssetStates :
      /\ AssetRank(a) > AssetRank(assets[l])
      /\ assets' = [assets EXCEPT ![l] = a]
      /\ UNCHANGED <<models, tokenizers, tts, trVars, srvVars>>

NextTTS == GenerateSpeech \/ Provision

SpecTTS == InitTTS /\ [][NextTTS]_vars

----------------------------------------------------------------------------
(* The translation service on its own: a glossary loaded at construction,   *)
(* then translate calls.                                                     *)

InitTranslate ==
    /\ context_dict \in Glossaries
    /\ \E text \in Texts, dir \in Directions :
          tr = [NoCall EXCEPT !.text = text, !.src_lang = dir[1], !.tgt_lang = dir[2]]
    /\ TTSIdle
    /\ ServerIdle

\* one call of translate on the inputs held in tr
Translate ==
    /\ ~tr.called
    /\ LET p == protect_terms(context_dict, tr.text, tr.src_lang, tr.tgt_lang)
       IN  \E generated \in ModelOutputs(p.processed_text, p.protected_map) :
             tr' = translate(context_dict, tr.text, tr.src_lang, tr.tgt_lang, generated)
    /\ UNCHANGED <<context_dict, ttsVars, srvVars>>

NextTranslate == Translate

SpecTranslate == InitTranslate /\ [][NextTranslate]_vars

----------------------------------------------------------------------------
(* Properties of the translation service. *)

\* the placeholders of the last call's mask map
MapPlaceholders == { tr.protection_map[k][1] : k \in 1..Len(tr.protection_map) }

\* s is a proper prefix of t
ProperPrefix(s, t) == Len(s) < Len(t) /\ SubSeq(t, 1, Len(s)) = s

\* C1: when a placeholder of the call's mask map does not occur in the
\* translation model's output, translate signals an error instead of
\* returning a translation.
C1_MissingPlaceholderRaises ==
    (tr.called /\ \E ph \in MapPlaceholders : ~Contains(tr.generated, ph))
        => tr.status = "error"

\* C5: in a supported direction, when the glossary holds an entry searched by
\* the whole text "A B" and an entry searched by its proper prefix "A", the
\* mask map is exactly one placeholder, mapped to the replacement of the
\* "A B" entry.
C5_LongestMatchPrecedence ==
    (tr.called /\ tr.protected /\ SupportedDirection(tr.src_lang, tr.tgt_lang))
        => \A i, j \in 1..Len(context_dict) :
             LET long == SearchKey(context_dict[i], tr.src_lang, tr.tgt_lang)
                 short == SearchKey(context_dict[j], tr.src_lang, tr.tgt_lang)
             IN  (long = tr.text /\ ProperPrefix(short, long) /\ short # <<>>)
                   => tr.protection_map =
                        << <<Placeholder(0),
                             Replacement(context_dict[i], tr.src_lang, tr.tgt_lang)>> >>

\* C6: every placeholder recorded in the mask map of a _protect_terms call
\* occurs intact in the masked text the call returns.
C6_PlaceholdersIntact ==
    (tr.called /\ tr.protected)
        => \A ph \in MapPlaceholders : Contains(tr.masked_text, ph)

\* C7: the placeholders of a _protect_terms call are pairwise distinct and
\* none of them occurs in the call's input text.
C7_PlaceholdersFresh ==
    (tr.called /\ tr.protected)
        => /\ \A ph \in MapPlaceholders : ~Contains(tr.text, ph)
           /\ Cardinality(MapPlaceholders) = Len(tr.protection_map)

\* the round trip a glossary promises, computed on the text alone: the k-th
\* record (in the order _protect_terms tries them) takes every occurrence of
\* its search key that no earlier record took, and each taken span becomes
\* the record's replacement.  A taken span is held as one mark, a single
\* element no search key can match.
SpanMark(k) == "#" \o ToString(k)

RECURSIVE MarkSpans(_, _, _, _, _)
MarkSpans(entries, k, s, src_lang, tgt_lang) ==
    IF k > Len(entries) THEN s
    ELSE MarkSpans(entries, k + 1,
                   ReSubIgnoreCase(SearchKey(entries[k], src_lang, tgt_lang),
                                   <<SpanMark(k)>>, s),
                   src_lang, tgt_lang)

ExpandSpans(entries, s, src_lang, tgt_lang) ==
    Flatten([i \in 1..Len(s) |->
               IF \E k \in 1..Len(entries) : s[i] = SpanMark(k)
               THEN Replacement(entries[CHOOSE k \in 1..Len(entries) : s[i] = SpanMark(k)],
                                src_lang, tgt_lang)
               ELSE <<s[i]>>])

ExpectedRoundTrip(d, text, src_lang, tgt_lang) ==
    ExpandSpans(sorted_terms(d),
                MarkSpans(sorted_terms(d), 1, text, src_lang, tgt_lang),
                src_lang, tgt_lang)

\* the translation model returned the masked text as it was (an identity stub)
IdentityStub == tr.called /\ tr.status = "ok" /\ tr.generated = tr.masked_text

\* C11: in a supported direction, when the translation model returns the
\* masked text verbatim, translate returns the input text with each
\* occurrence of a matched glossary term replaced by the entry's
\* target-language string, and no placeholder of the mask map is left in it.
C11_MaskingRoundTrip ==
    (IdentityStub /\ SupportedDirection(tr.src_lang, tr.tgt_lang))
        => /\ tr.result = ExpectedRoundTrip(context_dict, tr.text, tr.src_lang, tr.tgt_lang)
           /\ \A ph \in MapPlaceholders : ~Contains(tr.result, ph)

\* an entry's string in the language the call translates into, as the
\* glossary file spells it
TargetString(entry, tgt_lang) ==
    IF tgt_lang = "hi" THEN entry.translation ELSE entry.term

\* C12: in both supported directions, every replacement recorded in the mask
\* map is the target-language string of a glossary entry, exactly as cased in
\* the glossary.
C12_ReplacementIsTargetString ==
    (tr.called /\ tr.protected /\ SupportedDirection(tr.src_lang, tr.tgt_lang))
        => \A k \in 1..Len(tr.protection_map) :
             \E i \in 1..Len(context_dict) :
               tr.protection_map[k][2] = TargetString(context_dict[i], tr.tgt_lang)

\* a glossary record with both of its keys, and the records of a glossary
\* that have them
WellFormed(e) == HasTerm(e) /\ HasTranslation(e)

WellFormedOnly(d) == SelectSeq(d, WellFormed)

\* C13: with a malformed record in the glossary, a translate call between
\* languages the translation model knows still completes, and its masked
\* text and mask map are those the well-formed records alone produce.
C13_MalformedRecordSkipped ==
    (tr.called /\ (\E i \in 1..Len(context_dict) : ~WellFormed(context_dict[i]))
       /\ tr.src_lang \in M2MLangs /\ tr.tgt_lang \in M2MLangs)
        => LET p == protect_terms(WellFormedOnly(context_dict), tr.text,
                                  tr.src_lang, tr.tgt_lang)
           IN  /\ tr.status = "ok"
               /\ tr.masked_text = p.processed_text
               /\ tr.protection_map = p.protected_map

\* a record holds the key it is searched by in a direction
HasSearchKey(e, src_lang, tgt_lang) ==
    IF src_lang = "en" /\ tgt_lang = "hi" THEN HasTerm(e) ELSE HasTranslation(e)

\* no glossary term applicable to the direction occurs in the text,
\* compared case-insensitively
NoTermOccurs(d, text, src_lang, tgt_lang) ==
    \A i \in 1..Len(d) :
      HasSearchKey(d[i], src_lang, tgt_lang)
          => ~HasMatch(SearchKey(d[i], src_lang, tgt_lang), text, TRUE)

\* the call's _protect_terms returned the input text and an empty mask map
PassedThrough ==
    tr.protected /\ tr.masked_text = tr.text /\ tr.protection_map = <<>>

\* C18: in a supported direction, for a text in which no applicable glossary
\* term occurs, _protect_terms returns the text unchanged and an empty mask
\* map.
C18_NoMatchNoOp ==
    (tr.called /\ SupportedDirection(tr.src_lang, tr.tgt_lang)
       /\ NoTermOccurs(context_dict, tr.text, tr.src_lang, tr.tgt_lang))
        => PassedThrough

\* C19: in every direction other than (en, hi) and (hi, en), for every text
\* and glossary, _protect_terms returns the input text unchanged with an
\* empty mask map.
C19_UnsupportedDirectionPassThrough ==
    (tr.called /\ ~SupportedDirection(tr.src_lang, tr.tgt_lang)) => PassedThrough

----------------------------------------------------------------------------
(* Properties of the synthesis service. *)

\* the load of language l failed during the last call
LoadRaised(l) ==
    \E k \in 1..Len(tts.loads) : tts.loads[k] \in {<<l, "missing">>, <<l, "raised">>}

\* C3: after a generate_speech call for a non-default language, a load of it
\* that failed has left no cache entry for it, and a call made while its
\* assets are complete is synthesized with the language's own model.
C3_FailedLoadLeavesNoEntry ==
    (tts.called /\ tts.language \in TTS_LANGUAGES \ {"en"})
        => /\ LoadRaised(tts.language)
                => (tts.language \notin models /\ tts.language \notin tokenizers)
           /\ tts.on_disk = "complete"
                => (tts.status = "ok" /\ tts.used = tts.language)

\* C4: a generate_speech call for a catalogue language whose directory is
\* absent, made while the default language's assets are complete, succeeds
\* with the default language's model and leaves no cache entry for the
\* requested language.
C4_FallbackToDefault ==
    (tts.called /\ tts.language \in TTS_LANGUAGES
       /\ tts.on_disk = "absent" /\ tts.en_on_disk = "complete")
        => /\ tts.status = "ok"
           /\ tts.used = "en"
           /\ tts.language \notin models

\* the language the last call tried to load
Requested == IF tts.language \in TTS_LANGUAGES THEN tts.language ELSE "en"

\* C16: when the load of the requested language failed and, unless that was
\* the default language itself, the load of the default failed too, the
\* generate_speech call ended in an error, wrote no audio, and left no cache
\* entry for a language whose load failed (a load is only tried for a
\* language that had no entry, so an entry there now was added by the call).
C16_NoFallbackLeft ==
    (tts.called /\ LoadRaised(Requested) /\ (Requested = "en" \/ LoadRaised("en")))
        => /\ tts.status # "ok"
           /\ ~tts.wrote
           /\ Requested \notin models \cup tokenizers
           /\ "en" \notin models \cup tokenizers

\* C20: the languages with a cached model are the languages with a cached
\* tokenizer, and no generate_speech call selected a language whose
\* tokenizer is missing.
C20_ModelsMatchTokenizers ==
    /\ models = tokenizers
    /\ tts.status # "key_error"

----------------------------------------------------------------------------
(* Properties of the request handlers. *)

\* C2: an audio request whose recognizer inference call raised is answered
\* with a failure tagged with the transcription stage, never with the
\* no-speech result.
C2_RaisedTranscriptionIsAnError ==
    \A r \in Requests :
      (reqs[r].pc = "done" /\ reqs[r].stt_raised) => reqs[r].resp = "500_stt"

\* C8: speak requests that were waiting together for the same language, not
\* yet in the cache, start one load of that language.
C8_OneLoadPerLanguage ==
    \A r \in Requests :
      (reqs[r].kind = "speak" /\ reqs[r].joined)
          => load_started[UseLang(reqs[r].src)] <= 1

\* the responses that report a failure to the caller
ErrorResponses == { "503", "500_save", "500_stt", "500_translation", "500_tts" }

\* request r carries a language code the stage it reached does not support:
\* a speak request outside the synthesis catalogue, a text request outside
\* the translation model's languages, an audio request whose audio was
\* usable and whose source the recognizer does not know or whose transcript
\* was to be translated into an unknown target
UnsupportedCode(r) ==
    CASE reqs[r].kind = "speak" -> reqs[r].src \notin TTS_LANGUAGES
      [] reqs[r].kind = "text" ->
            reqs[r].src \notin M2MLangs \/ reqs[r].tgt \notin M2MLangs
      [] reqs[r].kind = "audio" ->
            /\ ~reqs[r].no_signal
            /\ \/ reqs[r].src \notin WhisperLangs
               \/ reqs[r].transcript = "text" /\ reqs[r].tgt \notin M2MLangs
      [] OTHER -> FALSE

\* C14: a request carrying an unsupported language code is answered with an
\* error (never with a success in another language, never with the
\* no-speech result), and its handler gives the event loop back.
C14_UnsupportedCodeIsAnError ==
    \A r \in Requests :
      (reqs[r].pc = "done" /\ UnsupportedCode(r))
          => /\ reqs[r].resp \in ErrorResponses
             /\ running # r

\* the stage whose constructor raised at startup: the first service left
\* None (startup_event never reaches the constructors after it)
FailedStage ==
    IF ~stt_service THEN "stt"
    ELSE IF ~trans_service THEN "translation"
    ELSE IF ~tts_service THEN "tts"
    ELSE "none"

\* the stages a kind of request needs
StagesNeeded(kind) ==
    CASE kind = "audio" -> { "stt", "translation" }
      [] kind = "text" -> { "translation" }
      [] kind = "speak" -> { "tts" }
      [] OTHER -> {}

\* C15: a request is rejected as unavailable only when the stage that failed
\* to load at startup is one the request needs.
C15_UnavailableOnlyForItsStage ==
    \A r \in Requests :
      (reqs[r].pc = "done" /\ reqs[r].resp = "503")
          => FailedStage \in StagesNeeded(reqs[r].kind)

\* C17: an audio or text request is never inside generate_speech and is
\* never answered with an audio reference, and no step of such a request
\* changes the synthesis cache or starts a load.
C17_TranslateNeverSynthesizes ==
    /\ [](\A r \in Requests :
            reqs[r].kind \in {"audio", "text"}
                => /\ reqs[r].pc \notin {"tts_load", "tts_infer"}
                   /\ reqs[r].used = "none"
                   /\ reqs[r].resp # "ok_audio")
    /\ [][(\E r \in Requests :
              reqs'[r] # reqs[r] /\ reqs'[r].kind \in {"audio", "text"})
            => /\ models' = models
               /\ tokenizers' = tokenizers
               /\ load_started' = load_started
               /\ load_raised' = load_raised]_vars

\* a translate request has returned its translation next to a speak request
\* that was synthesized
C17_Witness ==
    \E r, q \in Requests :
      /\ reqs[r].kind \in {"audio", "text"} /\ reqs[r].resp = "ok"
      /\ reqs[q].kind = "speak" /\ reqs[q].resp = "ok_audio"
      /\ models # {}

\* the requests inside a model call, and the model instance each one is in
InModelCall(r) == reqs[r].pc \in {"stt_infer", "tr_generate", "tts_load", "tts_infer"}

ModelInstance(r) ==
    CASE reqs[r].pc = "stt_infer" -> "whisper"
      [] reqs[r].pc = "tr_generate" -> "m2m100"
      [] reqs[r].pc = "tts_load" -> UseLang(reqs[r].src)
      [] OTHER -> reqs[r].used

\* C9: no two requests are inside a call of the same model instance at once,
\* and the tokenizer's src_lang a translate call set is the one in effect
\* while that call generates and when it returns.
C9_ModelCallsSerialized ==
    /\ \A r, q \in Requests :
         (r # q /\ InModelCall(r) /\ InModelCall(q)) => ModelInstance(r) # ModelInstance(q)
    /\ \A r \in Requests :
         /\ reqs[r].pc = "tr_generate" => tokenizer_src_lang = reqs[r].src
         /\ reqs[r].eff_src # "none" => reqs[r].eff_src = reqs[r].src

\* a translate call is generating while another request with a different
\* source language is waiting for the event loop
C9_Witness ==
    \E r, q \in Requests :
      /\ reqs[r].pc = "tr_generate"
      /\ reqs[q].pc = "queued" /\ reqs[q].kind \in {"audio", "text"}
      /\ reqs[q].src # reqs[r].src

\* C10: an audio request whose audio cannot be normalized, or whose
\* transcription is the empty string, is answered with the no-speech result
\* and never enters the translation stage.
C10_EmptyTranscriptShortCircuits ==
    \A r \in Requests :
      (reqs[r].kind = "audio" /\ reqs[r].transcript = "empty")
          => /\ reqs[r].pc = "done"
             /\ reqs[r].resp = "no_speech"
             /\ ~reqs[r].translated
             /\ reqs[r].eff_src = "none"

\* both ways to the short circuit have been taken: unusable audio, and a
\* recognizer that returned only blanks
C10_Witness ==
    \E r, q \in Requests :
      /\ reqs[r].kind = "audio" /\ reqs[r].pc = "done" /\ reqs[r].no_signal
      /\ reqs[q].kind = "audio" /\ reqs[q].pc = "done" /\ ~reqs[q].no_signal
      /\ reqs[q].transcript = "empty" /\ ~reqs[q].stt_raised

====
